---------------------------- MODULE Spec2Model ----------------------------
(***************************************************************************)
(* Model of example_mandelbrot/src/main.rs: the escape-time evaluator, the *)
(* pixel-to-point mapper, the pair parser, the band renderer and the       *)
(* dispatcher of main (chunks_mut + crossbeam::scope + write_image).       *)
(***************************************************************************)
EXTENDS Integers, Sequences, FiniteSets, TLC

(***************************************************************************)
(* f64.  A binary floating-point value is held as the integer n that       *)
(* stands for n * 2^-FracBits.  A representable value has at most          *)
(* Precision significant bits and a least exponent of -FracBits (gradual   *)
(* underflow); every operation returns the exact result rounded to the     *)
(* nearest representable value, ties to even, as IEEE-754 does.  f64 is    *)
(* the format with 53 significant bits and least exponent -1074; the       *)
(* model keeps the rounding and shrinks the two widths.  Infinities and    *)
(* NaN are never produced from the finite inputs used here.               *)
(***************************************************************************)
Precision == 10
FracBits == 10

RECURSIVE Pow2(_)
Pow2(k) == IF k = 0 THEN 1 ELSE 2 * Pow2(k - 1)

\* 1.0 as a scaled integer.
One == Pow2(FracBits)

\* The first integer that needs more than Precision bits.
Mant == Pow2(Precision)

Abs(x) == IF x < 0 THEN -x ELSE x

Sgn(x) == IF x < 0 THEN -1 ELSE 1

\* The spacing of representable values at magnitude q (a power of two).
RECURSIVE Ulp(_, _)
Ulp(q, u) == IF q < Mant * u THEN u ELSE Ulp(q, 2 * u)

\* num/den (den > 0) rounded to the nearest representable value, ties to even.
RoundQ(num, den) ==
    LET a == Abs(num)
        u == Ulp(a \div den, 1)
        d == den * u
        k == a \div d
        r == a % d
        up == (2 * r > d) \/ (2 * r = d /\ k % 2 = 1)
    IN  Sgn(num) * (IF up THEN k + 1 ELSE k) * u

FAdd(a, b) == RoundQ(a + b, 1)
FSub(a, b) == RoundQ(a - b, 1)
FMul(a, b) == RoundQ(a * b, One)
FDiv(a, b) == IF b > 0 THEN RoundQ(a * One, b) ELSE RoundQ((-a) * One, -b)

\* `i as f64` for a usize i.
AsF64(i) == RoundQ(i * One, 1)

\* num::Complex<f64>
Complex(re, im) == [re |-> re, im |-> im]

\* Complex * Complex (num-complex: re = a.re*b.re - a.im*b.im,
\* im = a.re*b.im + a.im*b.re).
CMul(a, b) ==
    Complex(FSub(FMul(a.re, b.re), FMul(a.im, b.im)),
            FAdd(FMul(a.re, b.im), FMul(a.im, b.re)))

CAdd(a, b) == Complex(FAdd(a.re, b.re), FAdd(a.im, b.im))

\* Complex::norm_sqr
norm_sqr(z) == FAdd(FMul(z.re, z.re), FMul(z.im, z.im))

\* Option<T>
None == <<"None">>
Some(x) == <<"Some", x>>
IsSome(o) == o[1] = "Some"
Unwrap(o) == o[2]

(***************************************************************************)
(* escape_time                                                             *)
(***************************************************************************)
\* Mutant of Escaped: the threshold test with >= in place of >.
Escaped_ge(z) == norm_sqr(z) >= 4 * One

\* The test of line 17.
Escaped(z) == norm_sqr(z) > 4 * One

\* One turn of the loop of lines 15-20.  st.i is the loop index, st.z the
\* current z, and st.returned says that `return Some(i)` was executed.
loop_turn(st, c) ==
    IF st.returned THEN st
    ELSE LET z1 == CAdd(CMul(st.z, st.z), c)
         IN  IF Escaped(z1) THEN [z |-> z1, i |-> st.i, returned |-> TRUE]
             ELSE [z |-> z1, i |-> st.i + 1, returned |-> FALSE]

\* n consecutive turns of the loop, or fewer when it returns (the turns are
\* taken in two halves, the first half before the second is entered).
RECURSIVE loop_turns(_, _, _)
loop_turns(st, c, n) ==
    IF st.returned \/ n = 0 THEN st
    ELSE IF n = 1 THEN loop_turn(st, c)
    ELSE loop_turns(loop_turns(st, c, n \div 2), c, n - n \div 2)

escape_time(c, limit) ==
    LET st == loop_turns([z |-> Complex(0, 0), i |-> 0, returned |-> FALSE], c, limit)
    IN  IF st.returned THEN Some(st.i) ELSE None

(***************************************************************************)
(* pixel_to_point                                                          *)
(***************************************************************************)
\* Mutant of pixel_to_point: the imaginary part added instead of subtracted.
pixel_to_point_up(bounds_, pixel, ul, lr) ==
    LET width == FSub(lr.re, ul.re)
        height == FSub(ul.im, lr.im)
    IN  Complex(FAdd(ul.re, FDiv(FMul(AsF64(pixel[1]), width), AsF64(bounds_[1]))),
                FAdd(ul.im, FDiv(FMul(AsF64(pixel[2]), height), AsF64(bounds_[2]))))

pixel_to_point(bounds_, pixel, ul, lr) ==
    LET width == FSub(lr.re, ul.re)
        height == FSub(ul.im, lr.im)
    IN  Complex(FAdd(ul.re, FDiv(FMul(AsF64(pixel[1]), width), AsF64(bounds_[1]))),
                FSub(ul.im, FDiv(FMul(AsF64(pixel[2]), height), AsF64(bounds_[2]))))


(***************************************************************************)
(* &str.  A string is its UTF-8 byte sequence; a byte is written as a      *)
(* one-character string for an ASCII character, and the two-byte character *)
(* U+00E9 is the bytes "C3" "A9".                                          *)
(***************************************************************************)
\* char::encode_utf8
Utf8Char(ch) == IF ch = "U+E9" THEN <<"C3", "A9">> ELSE <<ch>>

RECURSIVE Utf8(_)
Utf8(chars) ==
    IF chars = <<>> THEN <<>> ELSE Utf8Char(Head(chars)) \o Utf8(Tail(chars))

\* str::is_char_boundary, for a 0-based byte index.
is_char_boundary(s, i) ==
    \/ i = 0
    \/ i = Len(s)
    \/ (i < Len(s) /\ s[i + 1] # "A9")

\* str::find(char): the 0-based byte index of the first match.
find(s, separator) ==
    LET pat == Utf8Char(separator)
        hits == {i \in 0..(Len(s) - Len(pat)) : SubSeq(s, i + 1, i + Len(pat)) = pat}
    IN  IF hits = {} THEN None
        ELSE Some(CHOOSE i \in hits : \A j \in hits : i <= j)

\* Result<T, E>
Ok(x) == <<"Ok", x>>
Err == <<"Err">>
IsOk(r) == r[1] = "Ok"

\* A panic of the calling thread.
Panic == <<"panic">>

Digits == <<"0", "1", "2", "3", "4", "5", "6", "7", "8", "9">>

IsDigit(b) == \E d \in 1..10 : Digits[d] = b

\* char::to_digit(10)
to_digit(b) == (CHOOSE d \in 1..10 : Digits[d] = b) - 1

RECURSIVE DigitsValue(_, _)
DigitsValue(s, acc) ==
    IF s = <<>> THEN acc
    ELSE DigitsValue(Tail(s), 10 * acc + to_digit(Head(s)))

RECURSIVE Pow10(_)
Pow10(k) == IF k = 0 THEN 1 ELSE 10 * Pow10(k - 1)

\* <i32 as FromStr>::from_str (signed) and <usize as FromStr>::from_str:
\* an optional sign ('-' only when signed), then at least one digit and
\* nothing else.  The strings here are too short to overflow.
from_str_int(s, signed) ==
    IF s = <<>> THEN Err
    ELSE LET neg == signed /\ s[1] = "-"
             digits == IF neg THEN Tail(s) ELSE s
         IN  IF digits = <<>> \/ \E i \in 1..Len(digits) : ~IsDigit(digits[i])
             THEN Err
             ELSE Ok((IF neg THEN -1 ELSE 1) * DigitsValue(digits, 0))

\* <f64 as FromStr>::from_str on the decimal notation: an optional sign,
\* digits with at most one '.', at least one digit, nothing else; the value
\* is the decimal rounded to the nearest f64.
from_str_f64(s) ==
    LET neg == s # <<>> /\ s[1] = "-"
        body == IF neg THEN Tail(s) ELSE s
        dots == {i \in 1..Len(body) : body[i] = "."}
        bad == \E i \in 1..Len(body) : ~IsDigit(body[i]) /\ body[i] # "."
        digs == SelectSeq(body, IsDigit)
        frac == IF dots = {} THEN 0 ELSE Len(body) - (CHOOSE i \in dots : TRUE)
    IN  IF bad \/ Cardinality(dots) > 1 \/ digs = <<>> THEN Err
        ELSE Ok(RoundQ((IF neg THEN -1 ELSE 1) * DigitsValue(digs, 0) * One,
                       Pow10(frac)))

\* T::from_str for the types parse_pair is used with.
from_str(T, s) ==
    CASE T = "i32" -> from_str_int(s, TRUE)
      [] T = "usize" -> from_str_int(s, FALSE)
      [] T = "f64" -> from_str_f64(s)

(***************************************************************************)
(* parse_pair, parse_complex                                               *)
(***************************************************************************)
\* &s[index + 1..] panics when index + 1 is not a char boundary.
parse_pair(T, s, separator) ==
    LET found == find(s, separator)
    IN  IF ~IsSome(found) THEN None
        ELSE LET index == Unwrap(found)
             IN  IF ~is_char_boundary(s, index + 1) THEN Panic
                 ELSE LET l == from_str(T, SubSeq(s, 1, index))
                          r == from_str(T, SubSeq(s, index + 2, Len(s)))
                      IN  IF IsOk(l) /\ IsOk(r) THEN Some(<<l[2], r[2]>>) ELSE None

parse_complex(s) ==
    LET p == parse_pair("f64", s, ",")
    IN  IF p = Panic THEN Panic
        ELSE IF IsSome(p) THEN Some(Complex(p[2][1], p[2][2])) ELSE None

(***************************************************************************)
(* render: the value of one pixel                                          *)
(***************************************************************************)
\* The iteration limit render passes to escape_time.
Limit == 225

\* Mutant of intensity: the count written as it is, not subtracted from 255.
intensity_raw(e) == IF IsSome(e) THEN Unwrap(e) % 256 ELSE 0

\* `None => 0, Some(count) => 255 - count as u8`; `as u8` keeps the low byte.
intensity(e) == IF IsSome(e) THEN 255 - (Unwrap(e) % 256) ELSE 0

\* The index of a pixel in the slice render was given.
pixel_index(row, width, column) == row * width + column

\* The body of the inner loop of render for one (column, row).
render_pixel(band_bounds, column, row, ul, lr) ==
    intensity(escape_time(pixel_to_point(band_bounds, <<column, row>>, ul, lr), Limit))

(***************************************************************************)
(* main: the dispatcher                                                    *)
(***************************************************************************)
\* `let threads = 8`
DefaultThreads == 8

\* Mutant of RowsPerBand: the rounded-up quotient.
RowsPerBand_ceil(height, nthreads) == (height + nthreads - 1) \div nthreads

\* bounds.1 / threads + 1
RowsPerBand(height, nthreads) == height \div nthreads + 1

\* Mutant of ChunkSize: one byte too many.
ChunkSize_plus(rpb, width) == rpb * width + 1

\* The chunk size handed to chunks_mut.
ChunkSize(rpb, width) == rpb * width

Min(a, b) == IF a < b THEN a ELSE b

\* slice::chunks_mut on a slice of n bytes: consecutive chunks of `size`
\* bytes, the last one shorter when size does not divide n.
chunks_mut(n, size) ==
    [i \in 1..((n + size - 1) \div size) |->
        [start |-> (i - 1) * size, len |-> Min(size, n - (i - 1) * size)]]

\* Mutant of BandTop: the band index taken from 1.
BandTop_next(rpb, i) == rpb * (i + 1)

\* `let top = rows_per_band * i`
BandTop(rpb, i) == rpb * i

\* `let height = band.len() / bounds.0`
BandHeight(len, width) == len \div width

\* Mutant of SliceIndex: every thread indexes the whole buffer.
SliceIndex_shared(start, local) == local

\* A byte of a band slice, as an index of the whole buffer (0-based).
SliceIndex(start, local) == start + local

\* Mutant of ScopeResult: the result of the scope is not looked at.
ScopeResult_ignored(ts) == "Ok"

\* What crossbeam::scope returns once every spawned thread has ended.
ScopeResult(ts) ==
    IF \E i \in 1..Len(ts) : ts[i].pc = "panicked" THEN "Err" ELSE "Ok"

(***************************************************************************)
(* State                                                                   *)
(***************************************************************************)
VARIABLES
    call,           \* a direct call of one of the pure functions, with its arguments
    ret,            \* what that call returned
    bounds,         \* main: (width, height) parsed from PIXELS
    upper_left,     \* main: parsed from UPPERLEFT
    lower_right,    \* main: parsed from LOWERRIGHT
    threads,        \* main: the worker count
    main_pc,        \* main: where the main thread is
    pixels,         \* main: the buffer (pixels[i + 1] is byte i)
    rows_per_band,  \* main: rows per band
    bands,          \* main: the chunks of the buffer, in order
    tasks,          \* the threads spawned in the scope so far, in order
    written         \* the buffer write_image was called with, if it was

vars == <<call, ret, bounds, upper_left, lower_right, threads, main_pc, pixels,
          rows_per_band, bands, tasks, written>>

mainVars == <<bounds, upper_left, lower_right, threads, main_pc, pixels,
              rows_per_band, bands, tasks, written>>

Pending == <<"pending">>
Returned(v) == <<"ret", v>>

(***************************************************************************)
(* Bounds of the model                                                     *)
(***************************************************************************)
MaxWidth == 2
MaxHeight == 10
MaxPixels == 10
MaxFaultPixels == 6
MaxLimit == 6
MaxCoord == 8
MaxDim == 3
MaxStrLen == 3

\* The viewports main is run with: the corners are parsed as main parses them.
Corner(chars) == Unwrap(parse_complex(Utf8(chars)))

Viewports ==
    { <<Corner(<<"-", "2", ",", "1">>), Corner(<<"-", "1", ",", "-", "1">>)>>,
      <<Corner(<<"-", "1", ".", "2", "0", ",", "0", ".", "3", "5">>),
        Corner(<<"-", "1", ",", "0", ".", "2", "0">>)>> }

ThreadCounts == {1, 2, 3, DefaultThreads}

BoundsSet ==
    {b \in (0..MaxWidth) \X (0..MaxHeight) : b[1] * b[2] <= MaxPixels}

(***************************************************************************)
(* main                                                                    *)
(***************************************************************************)
MainInit ==
    /\ bounds \in BoundsSet
    /\ \E v \in Viewports : upper_left = v[1] /\ lower_right = v[2]
    /\ threads \in ThreadCounts
    /\ main_pc = "args"
    /\ pixels = <<>>
    /\ rows_per_band = 0
    /\ bands = <<>>
    /\ tasks = <<>>
    /\ written = None

\* Lines 130-135: the zero-filled buffer, rows_per_band and the chunks.
\* chunks_mut panics on a chunk size of 0.
Allocate ==
    /\ main_pc = "args"
    /\ LET rpb == RowsPerBand(bounds[2], threads)
           size == ChunkSize(rpb, bounds[1])
       IN  /\ pixels' = [i \in 1..(bounds[1] * bounds[2]) |-> 0]
           /\ rows_per_band' = rpb
           /\ IF size = 0
              THEN /\ main_pc' = "abort_chunks"
                   /\ bands' = <<>>
              ELSE /\ main_pc' = "scope"
                   /\ bands' = chunks_mut(bounds[1] * bounds[2], size)
    /\ UNCHANGED <<call, ret, bounds, upper_left, lower_right, threads, tasks, written>>

\* Lines 137-146: one turn of the loop over the bands, spawning its thread.
Spawn ==
    /\ main_pc = "scope"
    /\ Len(tasks) < Len(bands)
    /\ LET i == Len(tasks)
           band == bands[i + 1]
           top == BandTop(rows_per_band, i)
           height == BandHeight(band.len, bounds[1])
       IN  tasks' = Append(tasks,
               [start |-> band.start,
                len |-> band.len,
                top |-> top,
                band_bounds |-> <<bounds[1], height>>,
                band_upper_left |->
                    pixel_to_point(bounds, <<0, top>>, upper_left, lower_right),
                band_lower_right |->
                    pixel_to_point(bounds, <<bounds[1], top + height>>,
                                   upper_left, lower_right),
                pc |-> "running",
                k |-> 0])
    /\ UNCHANGED <<call, ret, bounds, upper_left, lower_right, threads, main_pc,
                   pixels, rows_per_band, bands, written>>

\* Lines 80-91, in thread i: the assertion at the start of render (before
\* the first pixel), then one turn of the inner loop; the thread ends after
\* the last pixel of its band.
RenderStep(i) ==
    /\ i \in 1..Len(tasks)
    /\ tasks[i].pc = "running"
    /\ LET t == tasks[i]
           width == t.band_bounds[1]
           height == t.band_bounds[2]
           row == t.k \div width
           column == t.k % width
           at == SliceIndex(t.start, pixel_index(row, width, column))
       IN  IF t.k = 0 /\ t.len # width * height
           THEN /\ tasks' = [tasks EXCEPT ![i].pc = "panicked"]
                /\ UNCHANGED pixels
           ELSE IF t.k = width * height
           THEN /\ tasks' = [tasks EXCEPT ![i].pc = "done"]
                /\ UNCHANGED pixels
           ELSE IF pixel_index(row, width, column) >= t.len
           THEN /\ tasks' = [tasks EXCEPT ![i].pc = "panicked"]
                /\ UNCHANGED pixels
           ELSE /\ pixels' = [pixels EXCEPT ![at + 1] =
                        render_pixel(t.band_bounds, column, row,
                                     t.band_upper_left, t.band_lower_right)]
                /\ tasks' = [tasks EXCEPT ![i].k = t.k + 1,
                                          ![i].pc = IF t.k + 1 = width * height
                                                    THEN "done" ELSE "running"]
    /\ UNCHANGED <<call, ret, bounds, upper_left, lower_right, threads, main_pc,
                   rows_per_band, bands, written>>

\* Lines 136, 148-149: the scope ends when every band was spawned and every
\* thread has ended; `.expect` panics on Err.
Join ==
    /\ main_pc = "scope"
    /\ Len(tasks) = Len(bands)
    /\ \A i \in 1..Len(tasks) : tasks[i].pc \in {"done", "panicked"}
    /\ main_pc' = IF ScopeResult(tasks) = "Ok" THEN "joined" ELSE "abort_scope"
    /\ UNCHANGED <<call, ret, bounds, upper_left, lower_right, threads, pixels,
                   rows_per_band, bands, tasks, written>>

\* Line 152: write_image is called with the buffer; it may fail, and then
\* `.expect` panics.
WriteImage ==
    /\ main_pc = "joined"
    /\ written' = Some(pixels)
    /\ \E ok \in BOOLEAN : main_pc' = IF ok THEN "exit" ELSE "abort_write"
    /\ UNCHANGED <<call, ret, bounds, upper_left, lower_right, threads, pixels,
                   rows_per_band, bands, tasks>>

\* A thread of the scope panics while it renders.
TaskPanic(i) ==
    /\ i \in 1..Len(tasks)
    /\ tasks[i].pc = "running"
    /\ tasks' = [tasks EXCEPT ![i].pc = "panicked"]
    /\ UNCHANGED <<call, ret, bounds, upper_left, lower_right, threads, main_pc,
                   pixels, rows_per_band, bands, written>>

Init ==
    /\ call = [fn |-> "main"]
    /\ ret = Pending
    /\ MainInit

Next ==
    \/ Allocate
    \/ Spawn
    \/ \E i \in 1..Len(tasks) : RenderStep(i)
    \/ Join
    \/ WriteImage

Spec == Init /\ [][Next]_vars

\* main with a thread of the scope allowed to panic.
NextFault ==
    \/ Next
    \/ \E i \in 1..Len(tasks) : TaskPanic(i)

\* The runs with a fault are explored for the images of at most
\* MaxFaultPixels pixels.
InitFault == Init /\ bounds[1] * bounds[2] <= MaxFaultPixels

SpecFault == InitFault /\ [][NextFault]_vars

(***************************************************************************)
(* The pure functions, called directly                                     *)
(***************************************************************************)
\* Multiples of 1/4 in [-MaxCoord/4, MaxCoord/4].
Coords == {k * (One \div 4) : k \in (-MaxCoord)..MaxCoord}

EscapeCalls ==
    [fn : {"escape_time"}, c : {Complex(a, b) : a \in Coords, b \in Coords},
     limit : 0..MaxLimit]

\* The viewport of test_pixel_to_point.
TestViewport == <<Complex(-One, One), Complex(One, -One)>>

MapCalls ==
    {[fn |-> "pixel_to_point", bounds |-> b, pixel |-> p, ul |-> v[1], lr |-> v[2]] :
        b \in (1..MaxDim) \X (1..MaxDim), p \in (0..MaxDim) \X (0..MaxDim),
        v \in Viewports \cup {TestViewport}}

MapTestCalls ==
    {[fn |-> "pixel_to_point", bounds |-> <<100, 100>>, pixel |-> p,
      ul |-> TestViewport[1], lr |-> TestViewport[2]] :
        p \in {<<25, 75>>, <<0, 0>>, <<100, 100>>, <<50, 50>>}}

Alphabet == {"0", "1", "-", ".", ",", "x", "U+E9"}

Strings == UNION {[1..n -> Alphabet] : n \in 0..MaxStrLen}

ParsePairCalls ==
    [fn : {"parse_pair"}, T : {"i32", "usize", "f64"}, s : Strings,
     separator : {",", "x", "U+E9"}]

ParseComplexCalls == [fn : {"parse_complex"}, s : Strings]

PureInit ==
    /\ \/ call \in EscapeCalls
       \/ call \in {m \in MapCalls : m.pixel[1] <= m.bounds[1] /\ m.pixel[2] <= m.bounds[2]}
       \/ call \in MapTestCalls
       \/ call \in ParsePairCalls
       \/ call \in ParseComplexCalls
    /\ ret = Pending
    /\ bounds = <<0, 0>>
    /\ upper_left = Complex(0, 0)
    /\ lower_right = Complex(0, 0)
    /\ threads = DefaultThreads
    /\ main_pc = "off"
    /\ pixels = <<>>
    /\ rows_per_band = 0
    /\ bands = <<>>
    /\ tasks = <<>>
    /\ written = None

CallEscapeTime ==
    /\ call.fn = "escape_time"
    /\ ret = Pending
    /\ ret' = Returned(escape_time(call.c, call.limit))
    /\ UNCHANGED <<call, mainVars>>

CallPixelToPoint ==
    /\ call.fn = "pixel_to_point"
    /\ ret = Pending
    /\ ret' = Returned(pixel_to_point(call.bounds, call.pixel, call.ul, call.lr))
    /\ UNCHANGED <<call, mainVars>>

CallParsePair ==
    /\ call.fn = "parse_pair"
    /\ ret = Pending
    /\ ret' = Returned(parse_pair(call.T, Utf8(call.s), call.separator))
    /\ UNCHANGED <<call, mainVars>>

CallParseComplex ==
    /\ call.fn = "parse_complex"
    /\ ret = Pending
    /\ ret' = Returned(parse_complex(Utf8(call.s)))
    /\ UNCHANGED <<call, mainVars>>

PureNext ==
    \/ CallEscapeTime
    \/ CallPixelToPoint
    \/ CallParsePair
    \/ CallParseComplex

SpecPure == PureInit /\ [][PureNext]_vars

(***************************************************************************)
(* Properties of the pure functions (checked under SpecPure)               *)
(***************************************************************************)
HasReturned(fn) == call.fn = fn /\ ret[1] = "ret"

\* z after n applications of z <- z*z + c to 0.
RECURSIVE Orbit(_, _)
Orbit(c, n) ==
    IF n = 0 THEN Complex(0, 0)
    ELSE LET z == Orbit(c, n - 1) IN CAdd(CMul(z, z), c)

\* |z|^2 > 4 after the iteration of 0-based index i.
ExceedsAt(c, i) ==
    LET z == Orbit(c, i + 1)
    IN  FAdd(FMul(z.re, z.re), FMul(z.im, z.im)) > 4 * One

\* No iteration of index below n exceeds the threshold.
NoneExceedsBefore(c, n) == \A j \in 0..(n - 1) : ~ExceedsAt(c, j)

\* C8: escape_time(c, limit) returns Some(i) for the smallest 0-based
\* iteration index i < limit after which |z|^2 > 4, and None when no
\* iteration within the limit exceeds the threshold; for c = (0,0) and a
\* positive limit it returns None.
EscapeTimeIsFirstExceeding ==
    HasReturned("escape_time") =>
        LET r == ret[2]
        IN  /\ IsSome(r) =>
                /\ Unwrap(r) \in 0..(call.limit - 1)
                /\ NoneExceedsBefore(call.c, Unwrap(r))
                /\ ExceedsAt(call.c, Unwrap(r))
            /\ ~IsSome(r) => NoneExceedsBefore(call.c, call.limit)
            /\ (call.c = Complex(0, 0) /\ call.limit > 0) => r = None

\* C8 witness: a call that escaped after some iterations that did not.
EscapeTimeWitness ==
    /\ HasReturned("escape_time")
    /\ IsSome(ret[2])
    /\ Unwrap(ret[2]) >= 2
    /\ Unwrap(ret[2]) < call.limit - 1

\* C7: pixel_to_point returns
\*   re = upper_left.re + column * (lower_right.re - upper_left.re) / w
\*   im = upper_left.im - row * (upper_left.im - lower_right.im) / h
\* (f64 operations, in this order); pixel (0,0) is upper_left itself, rows
\* grow downward, and bounds (100,100), pixel (25,75), viewport (-1,1) to
\* (1,-1) gives exactly (-0.5,-0.5).
PixelToPointFormula ==
    HasReturned("pixel_to_point") =>
        LET w == AsF64(call.bounds[1])
            h == AsF64(call.bounds[2])
            column == AsF64(call.pixel[1])
            row == AsF64(call.pixel[2])
            ul == call.ul
            lr == call.lr
            r == ret[2]
        IN  /\ r.re = FAdd(ul.re, FDiv(FMul(column, FSub(lr.re, ul.re)), w))
            /\ r.im = FSub(ul.im, FDiv(FMul(row, FSub(ul.im, lr.im)), h))
            /\ call.pixel = <<0, 0>> => r = ul
            /\ ul.im > lr.im => r.im <= ul.im
            /\ (ul.im > lr.im /\ call.pixel[2] = call.bounds[2]) => r.im < ul.im
            /\ (/\ call.bounds = <<100, 100>>
                /\ call.pixel = <<25, 75>>
                /\ ul = Complex(-One, One)
                /\ lr = Complex(One, -One))
                   => r = Complex(-(One \div 2), -(One \div 2))

\* C7 witness: the call of test_pixel_to_point has returned (-0.5,-0.5).
PixelToPointWitness ==
    /\ HasReturned("pixel_to_point")
    /\ call.bounds = <<100, 100>>
    /\ call.pixel = <<25, 75>>
    /\ ret[2] = Complex(-(One \div 2), -(One \div 2))

\* The 1-based positions of the separator character in the text.
SeparatorAt(chars, separator) == {q \in 1..Len(chars) : chars[q] = separator}

\* What C9 says parse_pair returns for the text `chars`.
ParsePairSaid(T, chars, separator) ==
    LET hits == SeparatorAt(chars, separator)
    IN  IF hits = {} THEN None
        ELSE LET q == CHOOSE x \in hits : \A y \in hits : x <= y
                 l == from_str(T, Utf8(SubSeq(chars, 1, q - 1)))
                 r == from_str(T, Utf8(SubSeq(chars, q + 1, Len(chars))))
             IN  IF IsOk(l) /\ IsOk(r) THEN Some(<<l[2], r[2]>>) ELSE None

\* C9: parse_pair returns Some((l, r)) exactly when the text contains the
\* separator and both the text before its first occurrence and the text
\* after it parse, and None in every other case; parse_complex returns Some
\* exactly when parse_pair with ',' does.
ParsePairSomeOrNone ==
    /\ HasReturned("parse_pair") =>
           ret[2] = ParsePairSaid(call.T, call.s, call.separator)
    /\ HasReturned("parse_complex") =>
           /\ ret[2][1] \in {"Some", "None"}
           /\ IsSome(ret[2]) <=> IsSome(ParsePairSaid("f64", call.s, ","))

\* parse_pair with a one-byte separator behaves as C9 says.
ParsePairAsciiSeparator ==
    (HasReturned("parse_pair") /\ Len(Utf8Char(call.separator)) = 1) =>
        ret[2] = ParsePairSaid(call.T, call.s, call.separator)

\* A call of parse_pair that panicked.
ParsePairPanicked == HasReturned("parse_pair") /\ ret[2] = Panic

(***************************************************************************)
(* Properties of main (checked under Spec, C4 under SpecFault)             *)
(***************************************************************************)
\* The buffer main produces for width >= 1 when the bands are rendered one
\* after the other by nthreads workers: byte idx - 1 is rendered by the band
\* whose chunk holds it.
ImageOf(b, ul, lr, nthreads) ==
    LET w == b[1]
        rpb == RowsPerBand(b[2], nthreads)
        size == ChunkSize(rpb, w)
        chunks == chunks_mut(w * b[2], size)
    IN  [idx \in 1..(w * b[2]) |->
            LET i == (idx - 1) \div size
                local == (idx - 1) - chunks[i + 1].start
                top == BandTop(rpb, i)
                height == BandHeight(chunks[i + 1].len, w)
            IN  render_pixel(<<w, height>>, local % w, local \div w,
                             pixel_to_point(b, <<0, top>>, ul, lr),
                             pixel_to_point(b, <<w, top + height>>, ul, lr))]

AllSpawned == main_pc # "args" /\ Len(tasks) = Len(bands)

\* The rows of the band of thread i.
Rows(i) == tasks[i].top .. (tasks[i].top + tasks[i].band_bounds[2] - 1)

\* The buffer indices (0-based) of the slice of thread i.
Slice(i) == tasks[i].start .. (tasks[i].start + tasks[i].len - 1)

\* C1: for width >= 1 the bands (band i at row top = rows_per_band * i, of
\* height = band length / width) have pairwise disjoint row ranges whose
\* union is [0, height of the image), and every buffer index belongs to
\* exactly one band, whose slice is exactly its rows.
BandsPartitionImage ==
    (AllSpawned /\ bounds[1] >= 1) =>
        /\ \A i, j \in 1..Len(tasks) : i # j => Rows(i) \cap Rows(j) = {}
        /\ UNION {Rows(i) : i \in 1..Len(tasks)} = 0..(bounds[2] - 1)
        /\ \A idx \in 0..(bounds[1] * bounds[2] - 1) :
               Cardinality({i \in 1..Len(tasks) : idx \in Slice(i)}) = 1
        /\ \A i \in 1..Len(tasks) :
               Slice(i) = {r * bounds[1] + col : r \in Rows(i), col \in 0..(bounds[1] - 1)}

\* C1 witness: several bands were built and the last one is shorter.
BandsPartitionWitness ==
    /\ AllSpawned
    /\ bounds[1] >= 2
    /\ Len(tasks) >= 3
    /\ tasks[Len(tasks)].len < tasks[1].len

\* C2: the buffer rendered with 8 workers is byte-identical to the buffer
\* rendered with 1 worker for the same bounds and viewport.
WorkerCountInvariance ==
    (main_pc = "joined" /\ bounds[1] >= 1 /\ threads = DefaultThreads) =>
        pixels = ImageOf(bounds, upper_left, lower_right, 1)

\* C3: every interleaving of the band threads ends with the same buffer, a
\* function of bounds, viewport and worker count; and while the threads run
\* every byte that is not zero lies in the part of a band's own slice that
\* its thread has already rendered.
RenderDeterministic ==
    /\ (main_pc = "joined" /\ bounds[1] >= 1) =>
           pixels = ImageOf(bounds, upper_left, lower_right, threads)
    /\ \A idx \in 0..(Len(pixels) - 1) :
           pixels[idx + 1] # 0 =>
               \E i \in 1..Len(tasks) :
                   idx \in tasks[i].start .. (tasks[i].start + tasks[i].k - 1)
    /\ written # None => written = Some(pixels)

\* C3 witness: three or more threads have rendered their bands and the
\* scope has ended.
RenderDeterministicWitness ==
    /\ main_pc = "joined"
    /\ Len(tasks) >= 3
    /\ \E idx \in 1..Len(pixels) : pixels[idx] # 0
    /\ \A i \in 1..Len(tasks) : tasks[i].k >= 2

\* The least n with n * b >= a.
Ceil(a, b) == CHOOSE n \in 0..a : n * b >= a /\ (n = 0 \/ (n - 1) * b < a)

\* C5 as stated: rows per band = ceil(height / workerCount).
RowsPerBandIsCeil ==
    main_pc # "args" => rows_per_band = Ceil(bounds[2], threads)

\* C5 amended: rows per band = floor(height / workerCount) + 1, which is
\* ceil(height / workerCount) when workerCount does not divide height and
\* one more than it when it does.
RowsPerBandIsFloorPlusOne ==
    main_pc # "args" =>
        /\ rows_per_band * threads > bounds[2]
        /\ (rows_per_band - 1) * threads <= bounds[2]
        /\ rows_per_band =
               IF bounds[2] % threads = 0 THEN Ceil(bounds[2], threads) + 1
               ELSE Ceil(bounds[2], threads)

\* C5 witness: the worker count divides the height, and rows per band is one
\* more than the quotient.
RowsPerBandWitness ==
    /\ main_pc = "joined"
    /\ bounds[2] >= 2
    /\ bounds[2] % threads = 0
    /\ rows_per_band = bounds[2] \div threads + 1

\* C6: for width >= 1 no thread panics: every band slice handed to render
\* has length width * band height (the assertion of render holds), every
\* pixel index is inside the slice, and a band of height 0 is written no
\* pixel; and main does not panic before write_image.
RenderRaisesNoError ==
    bounds[1] >= 1 =>
        /\ main_pc \notin {"abort_chunks", "abort_scope"}
        /\ \A i \in 1..Len(tasks) :
               /\ tasks[i].pc # "panicked"
               /\ tasks[i].len = tasks[i].band_bounds[1] * tasks[i].band_bounds[2]
               /\ tasks[i].k <= tasks[i].len
               /\ tasks[i].start + tasks[i].len <= Len(pixels)
               /\ tasks[i].band_bounds[2] = 0 => tasks[i].k = 0

\* C6 witness: more workers than rows, every band rendered, the scope ended.
RenderRaisesNoErrorWitness ==
    /\ main_pc = "joined"
    /\ bounds[1] >= 2
    /\ bounds[2] >= 2
    /\ threads > bounds[2]
    /\ \A i \in 1..Len(tasks) : tasks[i].pc = "done"

\* C10: with the limit 225 every escaped pixel has a count in [0, 224] and
\* was written 255 - count, a byte in [31, 255]; the byte 0 was written
\* exactly for the pixels whose point did not escape.
IntensityNeverWraps ==
    main_pc = "joined" =>
        \A i \in 1..Len(tasks) : \A k \in 0..(tasks[i].len - 1) :
            LET t == tasks[i]
                w == t.band_bounds[1]
                e == escape_time(pixel_to_point(t.band_bounds, <<k % w, k \div w>>,
                                                t.band_upper_left, t.band_lower_right),
                                 225)
                byte == pixels[t.start + k + 1]
            IN  /\ IsSome(e) =>
                    /\ Unwrap(e) \in 0..224
                    /\ byte = 255 - Unwrap(e)
                    /\ byte \in 31..255
                /\ byte = 0 <=> ~IsSome(e)

\* C10 witness: a rendered buffer holds a pixel that did not escape and a
\* pixel that escaped after several iterations.
IntensityWitness ==
    /\ main_pc = "joined"
    /\ \E idx \in 1..Len(pixels) : pixels[idx] = 0
    /\ \E idx \in 1..Len(pixels) : pixels[idx] \in 31..253

\* C4: write_image is called only after every band was spawned and every
\* thread has completed without failing; once a thread has panicked
\* write_image is never called and main ends in the panic of `.expect`.
WriteOnlyAfterAllBandsDone ==
    /\ (written # None \/ main_pc \in {"joined", "exit", "abort_write"}) =>
           /\ Len(tasks) = Len(bands)
           /\ \A i \in 1..Len(tasks) : tasks[i].pc = "done"
    /\ (\E i \in 1..Len(tasks) : tasks[i].pc = "panicked") =>
           /\ written = None
           /\ main_pc \in {"scope", "abort_scope"}

\* C4 witness: a thread panicked, another completed, and main aborted
\* without calling write_image.
WriteOnlyAfterAllBandsDoneWitness ==
    /\ main_pc = "abort_scope"
    /\ written = None
    /\ \E i \in 1..Len(tasks) : tasks[i].pc = "panicked"
    /\ \E i \in 1..Len(tasks) : tasks[i].pc = "done" /\ tasks[i].k >= 1

=============================================================================
